---- MODULE Spec2Model ----
(***************************************************************************)
(* A model of the hexr edit engine: the byte buffer with its cursor and    *)
(* view offset (src/src/editor.rs), the reversible operation records and   *)
(* the bounded undo/redo stack (src/src/undo_redo.rs), driven by the key   *)
(* dispatch of src/src/main.rs.                                            *)
(***************************************************************************)
EXTENDS Integers, Sequences, FiniteSets, TLC

\* ------------------------------------------------------------------ bounds

\* Largest buffer length the model lets an insert produce.
MaxLen == 3
\* Largest length of a file loaded at open / created by new_with_size.
MaxInitLen == 2
\* Number of recorded mutations in one editing session.
MaxEdits == 2
\* config.editor.bytes_per_line of the session (row width).
BytesPerLine == 2
\* Display::get_visible_lines() of the session (terminal height - 4).
VisibleLines == 1
\* UndoRedoStack::new(max_operations): the history capacity C of the session.
MaxOperations == 1

\* ------------------------------------------------------------ Vec<u8> model

\* Positions are zero-based as in the source; Seq indices are one-based.
Min(a, b) == IF a < b THEN a ELSE b

\* usize::saturating_sub
SatSub(a, b) == IF a > b THEN a - b ELSE 0

\* Result of a call that may abort the process (index out of bounds).
Done(d) == [ok |-> TRUE, data |-> d]
Abort(d) == [ok |-> FALSE, data |-> d]

\* data[i] = v (IndexMut): aborts when i >= len.
VecSet(d, i, v) ==
    IF i < Len(d) THEN Done([d EXCEPT ![i + 1] = v]) ELSE Abort(d)

\* Vec::remove(i): aborts when i >= len.
VecRemove(d, i) ==
    IF i < Len(d)
    THEN Done(SubSeq(d, 1, i) \o SubSeq(d, i + 2, Len(d)))
    ELSE Abort(d)

\* Vec::insert(i, v): aborts when i > len.
VecInsert(d, i, v) ==
    IF i <= Len(d)
    THEN Done(SubSeq(d, 1, i) \o <<v>> \o SubSeq(d, i + 1, Len(d)))
    ELSE Abort(d)

\* Vec::truncate(n): no effect when n >= len.
VecTruncate(d, n) == IF n < Len(d) THEN SubSeq(d, 1, n) ELSE d

\* Vec::splice(a..b, repl) and Vec::drain(a..b) with repl empty:
\* aborts when a > b or b > len.
VecSplice(d, a, b, repl) ==
    IF a <= b /\ b <= Len(d)
    THEN Done(SubSeq(d, 1, a) \o repl \o SubSeq(d, b + 1, Len(d)))
    ELSE Abort(d)

\* -------------------------------------------------------- EditOperation

\* Option<u8>: None is the empty sequence, Some(v) is <<v>>.
None == <<>>
Some(v) == <<v>>

InsertByte(p, old, new) ==
    [kind |-> "InsertByte", position |-> p, old_value |-> old, new_value |-> new]
DeleteByte(p, old) ==
    [kind |-> "DeleteByte", position |-> p, old_value |-> old]
ReplaceByte(p, old, new) ==
    [kind |-> "ReplaceByte", position |-> p, old_value |-> old, new_value |-> new]
InsertBytes(p, olds, news) ==
    [kind |-> "InsertBytes", position |-> p, old_values |-> olds, new_values |-> news]
DeleteBytes(p, olds) ==
    [kind |-> "DeleteBytes", position |-> p, old_values |-> olds]
ReplaceBytes(p, olds, news) ==
    [kind |-> "ReplaceBytes", position |-> p, old_values |-> olds, new_values |-> news]

new_replace_byte(position, old_value, new_value) ==
    ReplaceByte(position, old_value, new_value)

\* The two insert constructors are called by editor.rs but are not defined
\* in undo_redo.rs; they follow the record shapes of the specification:
\* InsertOne(position, new_byte) and InsertRange(position, new_bytes),
\* that is, no old value is recorded.
new_insert_byte(position, new_value) ==
    InsertByte(position, None, new_value)

new_insert_bytes(position, new_values) ==
    InsertBytes(position, <<>>, new_values)

\* EditOperation::undo(&self, data)
UndoInsertBytes(op, d) ==
    IF op.old_values = <<>>
    THEN Done(VecTruncate(d, op.position))
    ELSE LET current_len == Len(d)
             end_pos == Min(op.position + Len(op.old_values), current_len)
             sp == VecSplice(d, op.position, end_pos, op.old_values)
         IN  IF ~sp.ok THEN sp
             ELSE IF end_pos < current_len
                  THEN Done(VecTruncate(sp.data,
                         current_len - (current_len - end_pos) + Len(op.old_values)))
                  ELSE sp

OpUndo(op, d) ==
    CASE op.kind = "InsertByte" ->
            IF op.old_value # None
            THEN VecSet(d, op.position, op.old_value[1])
            ELSE VecRemove(d, op.position)
      [] op.kind = "DeleteByte" -> VecInsert(d, op.position, op.old_value)
      [] op.kind = "ReplaceByte" -> VecSet(d, op.position, op.old_value)
      [] op.kind = "InsertBytes" -> UndoInsertBytes(op, d)
      [] op.kind = "DeleteBytes" ->
            VecSplice(d, op.position, op.position, op.old_values)
      [] op.kind = "ReplaceBytes" ->
            VecSplice(d, op.position, op.position + Len(op.old_values), op.old_values)

\* EditOperation::redo(&self, data)
OpRedo(op, d) ==
    CASE op.kind = "InsertByte" ->
            IF op.position < Len(d)
            THEN VecSet(d, op.position, op.new_value)
            ELSE Done(Append(d, op.new_value))
      [] op.kind = "DeleteByte" ->
            IF op.position < Len(d) THEN VecRemove(d, op.position) ELSE Done(d)
      [] op.kind = "ReplaceByte" ->
            IF op.position < Len(d)
            THEN VecSet(d, op.position, op.new_value)
            ELSE Done(d)
      [] op.kind = "InsertBytes" ->
            IF op.position <= Len(d)
            THEN VecSplice(d, op.position, op.position, op.new_values)
            ELSE Done(d \o op.new_values)
      [] op.kind = "DeleteBytes" ->
            IF op.position < Len(d)
            THEN VecSplice(d, op.position,
                           Min(op.position + Len(op.old_values), Len(d)), <<>>)
            ELSE Done(d)
      [] op.kind = "ReplaceBytes" ->
            VecSplice(d, op.position, op.position + Len(op.new_values), op.new_values)

\* -------------------------------------------------------- UndoRedoStack

\* UndoRedoStack::new(max_operations)
NewStack(max_operations) ==
    [undo_stack |-> <<>>, redo_stack |-> <<>>, max_operations |-> max_operations]

\* A push that keeps the redo log.
StackPush_KeepRedo(s, operation) ==
    LET pushed == Append(s.undo_stack, operation)
    IN  [s EXCEPT !.undo_stack = IF Len(pushed) > s.max_operations
                                 THEN Tail(pushed) ELSE pushed]

\* A push that never evicts.
StackPush_NoEvict(s, operation) ==
    [s EXCEPT !.undo_stack = Append(@, operation), !.redo_stack = <<>>]

\* A push that drops the pushed record, not the oldest, from a full log.
StackPush_EvictNewest(s, operation) ==
    [s EXCEPT !.undo_stack = IF Len(@) >= s.max_operations
                             THEN @ ELSE Append(@, operation),
              !.redo_stack = <<>>]

\* UndoRedoStack::push
StackPush(s, operation) ==
    LET pushed == Append(s.undo_stack, operation)
    IN  [s EXCEPT !.undo_stack = IF Len(pushed) > s.max_operations
                                 THEN Tail(pushed) ELSE pushed,
                  !.redo_stack = <<>>]

\* An undo that takes the oldest record, not the newest.
StackUndo_Oldest(s) ==
    IF s.undo_stack = <<>>
    THEN [stack |-> s, op |-> None]
    ELSE LET op == Head(s.undo_stack)
         IN  [stack |-> [s EXCEPT !.undo_stack = Tail(@),
                                  !.redo_stack = Append(@, op)],
              op |-> Some(op)]

\* UndoRedoStack::undo: the stack after the call and the Option it returns.
StackUndo(s) ==
    IF s.undo_stack = <<>>
    THEN [stack |-> s, op |-> None]
    ELSE LET op == s.undo_stack[Len(s.undo_stack)]
         IN  [stack |-> [s EXCEPT !.undo_stack = SubSeq(@, 1, Len(@) - 1),
                                  !.redo_stack = Append(@, op)],
              op |-> Some(op)]

\* A redo that puts the record back at the front of the undo log.
StackRedo_Front(s) ==
    IF s.redo_stack = <<>>
    THEN [stack |-> s, op |-> None]
    ELSE LET op == s.redo_stack[Len(s.redo_stack)]
         IN  [stack |-> [s EXCEPT !.redo_stack = SubSeq(@, 1, Len(@) - 1),
                                  !.undo_stack = <<op>> \o @],
              op |-> Some(op)]

\* UndoRedoStack::redo
StackRedo(s) ==
    IF s.redo_stack = <<>>
    THEN [stack |-> s, op |-> None]
    ELSE LET op == s.redo_stack[Len(s.redo_stack)]
         IN  [stack |-> [s EXCEPT !.redo_stack = SubSeq(@, 1, Len(@) - 1),
                                  !.undo_stack = Append(@, op)],
              op |-> Some(op)]

\* UndoRedoStack::can_undo / can_redo
StackCanUndo(s) == s.undo_stack # <<>>
StackCanRedo(s) == s.redo_stack # <<>>

\* A clear that leaves both logs as they are.
StackClear_Keep(s) == s

\* UndoRedoStack::clear
StackClear(s) == [s EXCEPT !.undo_stack = <<>>, !.redo_stack = <<>>]

\* ------------------------------------------------------------ HexEditor

\* The editor is the record of the HexEditor fields that carry state
\* (file_path, display and config are fixed for a session).
Row(pos) == pos \div BytesPerLine

\* What a call returns next to the editor it leaves: ret is "ok" for Ok(()),
\* "err" for an Err, "panic" when the call aborts the process; rec is the
\* number of operations it pushed on the undo/redo stack; io is what it did
\* to the file at file_path: "none", "written" (all the data, flushed) or
\* "failed" (the open or the write failed).
Ret(e, ret, rec) == [e |-> e, ret |-> ret, rec |-> rec, io |-> "none"]

\* vec![fill_byte; size]
RECURSIVE Repeat(_, _)
Repeat(v, n) == IF n = 0 THEN <<>> ELSE Append(Repeat(v, n - 1), v)

\* HexEditor::open(file_path, readonly, config) on a file holding `bytes`
open(bytes, readonly) ==
    [data |-> bytes, original_data |-> bytes, cursor_pos |-> 0, view_offset |-> 0,
     mode |-> "Hex", readonly |-> readonly, modified |-> FALSE, half_byte |-> None,
     undo_redo_stack |-> NewStack(MaxOperations), is_new_file |-> FALSE]

\* A new_with_size that reports every new buffer as unmodified.
new_with_size_Unmodified(fill_byte, size) ==
    [data |-> Repeat(fill_byte, size),
     original_data |-> Repeat(fill_byte, size),
     cursor_pos |-> 0, view_offset |-> 0,
     mode |-> "Hex", readonly |-> FALSE, modified |-> FALSE, half_byte |-> None,
     undo_redo_stack |-> NewStack(MaxOperations), is_new_file |-> TRUE]

\* HexEditor::new_with_size(fill_pattern, size, config), fill_byte parsed
new_with_size(fill_byte, size) ==
    [data |-> Repeat(fill_byte, size),
     original_data |-> Repeat(fill_byte, size),
     cursor_pos |-> 0, view_offset |-> 0,
     mode |-> "Hex", readonly |-> FALSE, modified |-> size > 0, half_byte |-> None,
     undo_redo_stack |-> NewStack(MaxOperations), is_new_file |-> TRUE]

\* An adjust_view that scrolls to the cursor itself, not to the start of a row.
adjust_view_ToCursor(e) ==
    IF Row(e.cursor_pos) < Row(e.view_offset)
       \/ Row(e.cursor_pos) >= Row(e.view_offset) + VisibleLines
    THEN [e EXCEPT !.view_offset = e.cursor_pos]
    ELSE e

\* HexEditor::adjust_view
adjust_view(e) ==
    LET visible_lines == VisibleLines
        cursor_line == e.cursor_pos \div BytesPerLine
        view_line == e.view_offset \div BytesPerLine
    IN  IF cursor_line < view_line
        THEN [e EXCEPT !.view_offset = cursor_line * BytesPerLine]
        ELSE IF cursor_line >= view_line + visible_lines
             THEN [e EXCEPT !.view_offset =
                              (cursor_line - visible_lines + 1) * BytesPerLine]
             ELSE e

\* HexEditor::move_cursor_up
move_cursor_up(e) ==
    IF e.cursor_pos >= BytesPerLine
    THEN adjust_view([e EXCEPT !.cursor_pos = @ - BytesPerLine])
    ELSE e

\* HexEditor::move_cursor_down
move_cursor_down(e) ==
    IF e.cursor_pos + BytesPerLine < Len(e.data)
    THEN adjust_view([e EXCEPT !.cursor_pos = @ + BytesPerLine])
    ELSE IF e.cursor_pos < Len(e.data)
         THEN adjust_view([e EXCEPT !.cursor_pos = SatSub(Len(e.data), 1)])
         ELSE e

\* HexEditor::move_cursor_left
move_cursor_left(e) ==
    IF e.cursor_pos > 0
    THEN adjust_view([e EXCEPT !.cursor_pos = @ - 1])
    ELSE e

\* A move to the right that does not stop at the last byte.
move_cursor_right_Unclamped(e) ==
    adjust_view([e EXCEPT !.cursor_pos = @ + 1])

\* HexEditor::move_cursor_right
move_cursor_right(e) ==
    IF e.cursor_pos < SatSub(Len(e.data), 1)
    THEN adjust_view([e EXCEPT !.cursor_pos = @ + 1])
    ELSE e

\* HexEditor::page_up
page_up(e) ==
    LET jump == VisibleLines * BytesPerLine
    IN  adjust_view([e EXCEPT !.cursor_pos = IF @ > jump THEN @ - jump ELSE 0])

\* HexEditor::page_down
page_down(e) ==
    LET jump == VisibleLines * BytesPerLine
    IN  adjust_view([e EXCEPT !.cursor_pos =
                                Min(@ + jump, SatSub(Len(e.data), 1))])

\* HexEditor::move_to_line_start
move_to_line_start(e) ==
    [e EXCEPT !.cursor_pos = (@ \div BytesPerLine) * BytesPerLine]

\* HexEditor::move_to_line_end
move_to_line_end(e) ==
    LET line_start == (e.cursor_pos \div BytesPerLine) * BytesPerLine
        line_end == Min(SatSub(line_start + BytesPerLine, 1),
                        SatSub(Len(e.data), 1))
    IN  [e EXCEPT !.cursor_pos = line_end]

\* HexEditor::toggle_mode
toggle_mode(e) ==
    [e EXCEPT !.mode = IF @ = "Hex" THEN "Ascii" ELSE "Hex",
              !.half_byte = None]

\* char::is_ascii_hexdigit, char::is_ascii_graphic and char::to_digit(16)
\* on a character given by its code.
IsAsciiHexdigit(c) == c \in (48..57) \cup (65..70) \cup (97..102)
IsAsciiGraphic(c) == c \in 33..126
ToDigit16(c) ==
    IF c \in 48..57 THEN c - 48
    ELSE IF c \in 97..102 THEN c - 87
    ELSE c - 55

\* The two nibbles the other way round.
HighLow_Swapped(high, value) == ((value * 16) % 256) + high

\* (high << 4) | value on u8, value < 16
HighLow(high, value) == ((high * 16) % 256) + value

\* HexEditor::input_hex_char
input_hex_char(e, c) ==
    IF e.readonly \/ e.mode # "Hex" THEN Ret(e, "ok", 0)
    ELSE
    LET value == ToDigit16(c)
    IN  IF e.half_byte # None
        THEN IF e.cursor_pos >= Len(e.data)
             THEN Ret([e EXCEPT !.half_byte = None], "ok", 0)
             ELSE LET high == e.half_byte[1]
                      old_value == e.data[e.cursor_pos + 1]
                      new_value == HighLow(high, value)
                      e1 == [e EXCEPT !.data[e.cursor_pos + 1] = new_value,
                                      !.modified = TRUE,
                                      !.half_byte = None,
                                      !.undo_redo_stack = StackPush(@,
                                          new_replace_byte(e.cursor_pos,
                                                           old_value, new_value))]
                  IN  Ret(IF e1.cursor_pos + 1 < Len(e1.data)
                          THEN [e1 EXCEPT !.cursor_pos = @ + 1]
                          ELSE e1, "ok", 1)
        ELSE Ret([e EXCEPT !.half_byte = Some(value)], "ok", 0)

\* An ASCII entry that records the replacement without flagging the buffer
\* as modified.
input_ascii_char_Unflagged(e, c) ==
    IF e.readonly \/ e.mode # "Ascii" THEN Ret(e, "ok", 0)
    ELSE IF e.cursor_pos >= Len(e.data) THEN Ret(e, "ok", 0)
    ELSE LET old_value == e.data[e.cursor_pos + 1]
             new_value == c % 256
             e1 == [e EXCEPT !.data[e.cursor_pos + 1] = new_value,
                             !.undo_redo_stack = StackPush(@,
                                 new_replace_byte(e.cursor_pos,
                                                  old_value, new_value))]
         IN  Ret(IF e1.cursor_pos + 1 < Len(e1.data)
                 THEN [e1 EXCEPT !.cursor_pos = @ + 1]
                 ELSE e1, "ok", 1)

\* HexEditor::input_ascii_char
input_ascii_char(e, c) ==
    IF e.readonly \/ e.mode # "Ascii" THEN Ret(e, "ok", 0)
    ELSE IF e.cursor_pos >= Len(e.data) THEN Ret(e, "ok", 0)
    ELSE LET old_value == e.data[e.cursor_pos + 1]
             new_value == c % 256
             e1 == [e EXCEPT !.data[e.cursor_pos + 1] = new_value,
                             !.modified = TRUE,
                             !.undo_redo_stack = StackPush(@,
                                 new_replace_byte(e.cursor_pos,
                                                  old_value, new_value))]
         IN  Ret(IF e1.cursor_pos + 1 < Len(e1.data)
                 THEN [e1 EXCEPT !.cursor_pos = @ + 1]
                 ELSE e1, "ok", 1)

\* str::trim().is_empty() on a string given as its character codes
\* (only the space is modelled as whitespace).
TrimIsEmpty(str) == \A i \in 1..Len(str) : str[i] = 32

\* Radix-16 value of a string of hex digits.
RECURSIVE HexValue(_)
HexValue(str) ==
    IF str = <<>> THEN 0
    ELSE HexValue(SubSeq(str, 1, Len(str) - 1)) * 16 + ToDigit16(str[Len(str)])

\* usize::from_str_radix(s, 16) / u8::from_str_radix(s, 16): None for an Err
\* (empty, a lone sign, a character that is no hex digit, a value that does
\* not fit `max`); one leading '+' is accepted.
FromStrRadix16(str, max) ==
    LET digits == IF str # <<>> /\ str[1] = 43 THEN Tail(str) ELSE str
    IN  IF digits = <<>> \/ \E i \in 1..Len(digits) : ~IsAsciiHexdigit(digits[i])
        THEN None
        ELSE LET value == HexValue(digits)
             IN  IF value > max THEN None ELSE Some(value)

\* str::replace(" ", "")
RECURSIVE RemoveSpaces(_)
RemoveSpaces(str) ==
    IF str = <<>> THEN <<>>
    ELSE IF Head(str) = 32 THEN RemoveSpaces(Tail(str))
         ELSE <<Head(str)>> \o RemoveSpaces(Tail(str))

\* The chunks(2) loop of utils::hex_string_to_bytes on the space-free string:
\* [ok |-> FALSE] for an Err, else the bytes (a trailing single character is
\* skipped).
RECURSIVE HexChunks(_)
HexChunks(hex) ==
    IF Len(hex) < 2 THEN [ok |-> TRUE, bytes |-> <<>>]
    ELSE LET byte == FromStrRadix16(SubSeq(hex, 1, 2), 255)
             rest == HexChunks(SubSeq(hex, 3, Len(hex)))
         IN  IF byte = None \/ ~rest.ok
             THEN [ok |-> FALSE, bytes |-> <<>>]
             ELSE [ok |-> TRUE, bytes |-> <<byte[1]>> \o rest.bytes]

\* utils::hex_string_to_bytes
hex_string_to_bytes(hex) == HexChunks(RemoveSpaces(hex))

\* A find_pattern that scans from the start of the buffer.
find_pattern_FromZero(d, pattern, start) ==
    IF pattern = <<>> \/ Len(pattern) > Len(d) THEN None
    ELSE LET hits == {i \in 0..(Len(d) - Len(pattern)) :
                        SubSeq(d, i + 1, i + Len(pattern)) = pattern}
         IN  IF hits = {} THEN None
             ELSE Some(CHOOSE i \in hits : \A j \in hits : i <= j)

\* HexEditor::find_pattern: None or Some(first index)
find_pattern(d, pattern, start) ==
    IF pattern = <<>> THEN None
    ELSE LET data_len == Len(d)
             pattern_len == Len(pattern)
         IN  IF pattern_len > data_len THEN None
             ELSE LET hits == {i \in start..SatSub(data_len, pattern_len) :
                                 SubSeq(d, i + 1, i + pattern_len) = pattern}
                  IN  IF hits = {} THEN None
                      ELSE Some(CHOOSE i \in hits : \A j \in hits : i <= j)

\* A search that sends the cursor back to offset 0 when it finds nothing.
start_search_ResetOnMiss(e, input) ==
    LET parsed == hex_string_to_bytes(input)
    IN  IF ~parsed.ok THEN Ret(e, "err", 0)
        ELSE LET pos == find_pattern(e.data, parsed.bytes, e.cursor_pos + 1)
             IN  IF pos # None
                 THEN Ret(adjust_view([e EXCEPT !.cursor_pos = pos[1]]), "ok", 0)
                 ELSE Ret(adjust_view([e EXCEPT !.cursor_pos = 0]), "ok", 0)

\* HexEditor::start_search, with the text get_user_input returned
start_search(e, input) ==
    LET parsed == hex_string_to_bytes(input)
    IN  IF ~parsed.ok THEN Ret(e, "err", 0)
        ELSE LET pos == find_pattern(e.data, parsed.bytes, e.cursor_pos + 1)
             IN  IF pos # None
                 THEN Ret(adjust_view([e EXCEPT !.cursor_pos = pos[1]]), "ok", 0)
                 ELSE Ret(e, "ok", 0)

\* Largest address the model parses (usize::MAX in the program).
MaxAddress == 255

\* A goto_address that does not clamp an address beyond the buffer.
goto_address_Unclamped(e, input) ==
    IF TrimIsEmpty(input) THEN Ret(e, "ok", 0)
    ELSE LET address == FromStrRadix16(input, MaxAddress)
         IN  IF address # None
             THEN Ret(adjust_view([e EXCEPT !.cursor_pos = address[1]]), "ok", 0)
             ELSE Ret(e, "ok", 0)

\* HexEditor::goto_address, with the text get_user_input returned
goto_address(e, input) ==
    IF TrimIsEmpty(input) THEN Ret(e, "ok", 0)
    ELSE LET address == FromStrRadix16(input, MaxAddress)
         IN  IF address # None
             THEN IF address[1] < Len(e.data)
                  THEN Ret(adjust_view([e EXCEPT !.cursor_pos = address[1]]), "ok", 0)
                  ELSE Ret(adjust_view([e EXCEPT !.cursor_pos =
                                                   SatSub(Len(e.data), 1)]), "ok", 0)
             ELSE Ret(e, "ok", 0)

\* An undo that sets modified even when it finds nothing to undo.
undo_AlwaysModified(e) ==
    IF e.readonly THEN Ret(e, "err", 0)
    ELSE LET popped == StackUndo(e.undo_redo_stack)
             r == IF popped.op # None
                  THEN OpUndo(popped.op[1], e.data) ELSE Done(e.data)
         IN  IF ~r.ok THEN Ret(e, "panic", 0)
             ELSE Ret([e EXCEPT !.undo_redo_stack = popped.stack,
                                !.data = r.data,
                                !.modified = TRUE], "ok", 0)

\* HexEditor::undo
undo(e) ==
    IF e.readonly THEN Ret(e, "err", 0)
    ELSE LET popped == StackUndo(e.undo_redo_stack)
         IN  IF popped.op # None
             THEN LET r == OpUndo(popped.op[1], e.data)
                  IN  IF ~r.ok THEN Ret(e, "panic", 0)
                      ELSE Ret([e EXCEPT !.undo_redo_stack = popped.stack,
                                         !.data = r.data,
                                         !.modified = TRUE], "ok", 0)
             ELSE Ret(e, "ok", 0)

\* HexEditor::redo
redo(e) ==
    IF e.readonly THEN Ret(e, "err", 0)
    ELSE LET popped == StackRedo(e.undo_redo_stack)
         IN  IF popped.op # None
             THEN LET r == OpRedo(popped.op[1], e.data)
                  IN  IF ~r.ok THEN Ret(e, "panic", 0)
                      ELSE Ret([e EXCEPT !.undo_redo_stack = popped.stack,
                                         !.data = r.data,
                                         !.modified = TRUE], "ok", 0)
             ELSE Ret(e, "ok", 0)

\* HexEditor::can_undo / can_redo
can_undo(e) == StackCanUndo(e.undo_redo_stack)
can_redo(e) == StackCanRedo(e.undo_redo_stack)

\* An insert_byte that does not look at the read-only flag.
insert_byte_Unguarded(e, value) ==
    LET position == e.cursor_pos
        ins == VecInsert(e.data, position, value)
    IN  IF ~ins.ok THEN Ret(e, "panic", 0)
        ELSE Ret(adjust_view([e EXCEPT !.data = ins.data,
                                       !.modified = TRUE,
                                       !.cursor_pos = position + 1]), "ok", 1)

\* HexEditor::insert_byte
insert_byte(e, value) ==
    IF e.readonly THEN Ret(e, "err", 0)
    ELSE LET position == e.cursor_pos
             ins == VecInsert(e.data, position, value)
         IN  IF ~ins.ok THEN Ret(e, "panic", 0)
             ELSE LET e1 == [e EXCEPT !.data = ins.data,
                                      !.modified = TRUE,
                                      !.undo_redo_stack = StackPush(@,
                                          new_insert_byte(position, value))]
                      e2 == IF position < Len(e1.data) - 1
                            THEN [e1 EXCEPT !.cursor_pos = @ + 1]
                            ELSE e1
                  IN  Ret(adjust_view(e2), "ok", 1)

\* The loop of insert_bytes: data.insert(position + i, byte) for each byte.
RECURSIVE InsertEach(_, _, _)
InsertEach(d, position, bytes) ==
    IF bytes = <<>> THEN Done(d)
    ELSE LET ins == VecInsert(d, position, Head(bytes))
         IN  IF ~ins.ok THEN ins
             ELSE InsertEach(ins.data, position + 1, Tail(bytes))

\* HexEditor::insert_bytes
insert_bytes(e, bytes) ==
    IF e.readonly THEN Ret(e, "err", 0)
    ELSE IF bytes = <<>> THEN Ret(e, "ok", 0)
    ELSE LET position == e.cursor_pos
             ins == InsertEach(e.data, position, bytes)
         IN  IF ~ins.ok THEN Ret(e, "panic", 0)
             ELSE Ret(adjust_view(
                        [e EXCEPT !.data = ins.data,
                                  !.modified = TRUE,
                                  !.undo_redo_stack = StackPush(@,
                                      new_insert_bytes(position, bytes)),
                                  !.cursor_pos = position + Len(bytes)]), "ok", 1)

\* HexEditor::insert_from_hex_string
insert_from_hex_string(e, hex_string) ==
    LET parsed == hex_string_to_bytes(hex_string)
    IN  IF ~parsed.ok THEN Ret(e, "err", 0) ELSE insert_bytes(e, parsed.bytes)

\* HexEditor::insert_from_ascii_string (the text is ASCII: one byte a character)
insert_from_ascii_string(e, ascii_string) == insert_bytes(e, ascii_string)

\* HexEditor::insert_from_hex_input, with the text get_user_input returned
insert_from_hex_input(e, input) ==
    IF TrimIsEmpty(input) THEN Ret(e, "ok", 0)
    ELSE insert_from_hex_string(e, input)

\* HexEditor::insert_from_ascii_input, with the text get_user_input returned
insert_from_ascii_input(e, input) ==
    IF TrimIsEmpty(input) THEN Ret(e, "ok", 0)
    ELSE insert_from_ascii_string(e, input)

\* A save that commits the new baseline before it knows the write went well.
save_CommitFirst(e, storage) ==
    IF e.readonly THEN Ret(e, "err", 0)
    ELSE IF ~e.modified THEN Ret(e, "ok", 0)
    ELSE [e |-> [e EXCEPT !.original_data = e.data,
                          !.modified = FALSE,
                          !.undo_redo_stack = StackClear(@)],
          ret |-> IF storage = "fail" THEN "err" ELSE "ok", rec |-> 0,
          io |-> IF storage = "fail" THEN "failed" ELSE "written"]

\* HexEditor::save; storage is what the file system does when asked to
\* open and write the file: "ok" or "fail".
save(e, storage) ==
    IF e.readonly THEN Ret(e, "err", 0)
    ELSE IF ~e.modified THEN Ret(e, "ok", 0)
    ELSE IF storage = "fail"
         THEN [e |-> e, ret |-> "err", rec |-> 0, io |-> "failed"]
    ELSE [e |-> [e EXCEPT !.original_data = e.data,
                          !.modified = FALSE,
                          !.undo_redo_stack = StackClear(@)],
          ret |-> "ok", rec |-> 0, io |-> "written"]

\* ------------------------------------------------------ the editing session

VARIABLES
    editor,     \* the HexEditor
    panicked,   \* the process aborted inside a call
    edits,      \* number of operations recorded so far in the session
    run,        \* progress of a mutate^n undo^n redo^n run since the start
    stack,      \* an UndoRedoStack driven on its own
    calls,      \* the calls made on `stack`, with what each returned
    t           \* an EditOperation applied forward and back on a buffer

vars == <<editor, panicked, edits, run, stack, calls, t>>

\* The bytes of the file opened: 0xAA, 0xBB, 0xCC, ...
FileByte(i) == (170 + 17 * (i - 1)) % 256
InitFiles == {[i \in 1..n |-> FileByte(i)] : n \in 0..MaxInitLen}

\* Keys handle_input receives as characters in a session: '1', 'G'.
Keys == {49, 71}
\* The value main.rs passes to insert_byte on Ctrl+Insert.
InsertValues == {255}
\* Texts typed at the "Insert hex bytes" prompt: "0102", "1", "GG".
HexInputs == {<<48, 49, 48, 50>>, <<49>>, <<71, 71>>}
\* Texts typed at the "Insert ASCII text" prompt: "G".
AsciiInputs == {<<71>>}
\* Texts typed at the "Go to address" prompt: "", "1", "g".
GotoInputs == {<<>>, <<49>>, <<103>>}
\* Texts typed at the "Search (hex)" prompt: "BB", "GG".
SearchInputs == {<<66, 66>>, <<71, 71>>}

\* No run is followed.
NoRun == [phase |-> "x", n |-> 0, u |-> 0, r |-> 0, base |-> <<>>, final |-> <<>>]

\* The run after call `name` returned `res`: n recorded mutations, then u
\* undo() calls, then r redo() calls; anything else ends the run.
RunNext(name, res) ==
    IF run.phase = "x" \/ res.ret = "panic" THEN run
    ELSE IF res.rec = 1
         THEN IF run.phase = "m"
              THEN [run EXCEPT !.n = @ + 1, !.final = res.e.data]
              ELSE NoRun
    ELSE IF name = "undo"
         THEN IF run.phase \in {"m", "u"} /\ run.u < run.n
              THEN [run EXCEPT !.phase = "u", !.u = @ + 1]
              ELSE NoRun
    ELSE IF name = "redo"
         THEN IF run.phase \in {"u", "r"} /\ run.u = run.n /\ run.r < run.n
              THEN [run EXCEPT !.phase = "r", !.r = @ + 1]
              ELSE NoRun
    ELSE IF name = "save" /\ res.io = "written" THEN NoRun
    ELSE run

\* Variables of the other specifications, at rest.
StackIdle == stack = NewStack(0) /\ calls = <<>>
OpIdle == t = [pc |-> "idle"]

Init ==
    /\ \E bytes \in InitFiles, readonly \in BOOLEAN :
          /\ editor = open(bytes, readonly)
          /\ run = NoRun
    /\ panicked = FALSE
    /\ edits = 0
    /\ StackIdle
    /\ OpIdle

\* One call of a public operation, from the main loop: `res` is what the
\* operation returns on the current editor.
Call(name, res) ==
    /\ ~panicked
    /\ edits + res.rec <= MaxEdits
    /\ Len(res.e.data) <= MaxLen
    /\ edits' = edits + res.rec
    /\ run' = RunNext(name, res)
    /\ panicked' = (res.ret = "panic")
    /\ editor' = IF res.ret = "panic" THEN editor ELSE res.e
    /\ UNCHANGED <<stack, calls, t>>

Plain(e) == Ret(e, "ok", 0)

MoveCursorUp == Call("move_cursor_up", Plain(move_cursor_up(editor)))
MoveCursorDown == Call("move_cursor_down", Plain(move_cursor_down(editor)))
MoveCursorLeft == Call("move_cursor_left", Plain(move_cursor_left(editor)))
MoveCursorRight == Call("move_cursor_right", Plain(move_cursor_right(editor)))
PageUp == Call("page_up", Plain(page_up(editor)))
PageDown == Call("page_down", Plain(page_down(editor)))
MoveToLineStart == Call("move_to_line_start", Plain(move_to_line_start(editor)))
MoveToLineEnd == Call("move_to_line_end", Plain(move_to_line_end(editor)))
ToggleMode == Call("toggle_mode", Plain(toggle_mode(editor)))

\* handle_input on KeyCode::Char(c) with no modifier or SHIFT: the method
\* the first matching arm calls, and what it returns.
handle_input_char(e, c) ==
    IF IsAsciiHexdigit(c)
    THEN [name |-> "input_hex_char", res |-> input_hex_char(e, c)]
    ELSE IF e.mode = "Ascii" /\ IsAsciiGraphic(c)
         THEN [name |-> "input_ascii_char", res |-> input_ascii_char(e, c)]
         ELSE [name |-> "ignored", res |-> Plain(e)]

KeyChar ==
    \E c \in Keys :
        Call(handle_input_char(editor, c).name, handle_input_char(editor, c).res)

StartSearch ==
    \E input \in SearchInputs :
        Call("start_search", start_search(editor, input))

GotoAddress ==
    \E input \in GotoInputs :
        Call("goto_address", goto_address(editor, input))

Undo == Call("undo", undo(editor))
Redo == Call("redo", redo(editor))

InsertByteKey ==
    \E value \in InsertValues :
        Call("insert_byte", insert_byte(editor, value))

InsertFromHexInput ==
    \E input \in HexInputs :
        Call("insert_from_hex_input", insert_from_hex_input(editor, input))

InsertFromAsciiInput ==
    \E input \in AsciiInputs :
        Call("insert_from_ascii_input", insert_from_ascii_input(editor, input))

\* Ctrl+S, and check_auto_save when it decides to save
Save ==
    \E storage \in {"ok", "fail"} : Call("save", save(editor, storage))

Next ==
    \/ MoveCursorUp \/ MoveCursorDown \/ MoveCursorLeft \/ MoveCursorRight
    \/ PageUp \/ PageDown \/ MoveToLineStart \/ MoveToLineEnd
    \/ ToggleMode \/ KeyChar \/ StartSearch \/ GotoAddress
    \/ Undo \/ Redo
    \/ InsertByteKey \/ InsertFromHexInput \/ InsertFromAsciiInput
    \/ Save

Spec == Init /\ [][Next]_vars

\* ------------------------------------ a session on any editor constructed

\* Largest size of a new file (--new).
MaxNewSize == 1

\* The fill byte of a new file: --fill parsed, 0x00 by default.
FillBytes == {0}

\* The editors run_editor constructs: a new file of a given size (size 0
\* also when no file is named), or a file opened writable or read-only.
Constructed ==
    {new_with_size(fill, size) : fill \in FillBytes, size \in 0..MaxNewSize}
    \cup {open(bytes, readonly) : bytes \in InitFiles, readonly \in BOOLEAN}

SessionInit ==
    /\ \E e0 \in Constructed :
          /\ editor = e0
          /\ run = NoRun
    /\ panicked = FALSE
    /\ edits = 0
    /\ StackIdle
    /\ OpIdle

SessionSpec == SessionInit /\ [][Next]_vars

\* ------------------------- a session whose history holds every edit made

\* A file opened writable with a history that has room for every edit of
\* the session (UndoRedoStack::default() holds 1000 records): no record is
\* evicted. The run of mutations, undos and redos is followed from the
\* opening of the file.
HistoryInit ==
    /\ \E bytes \in InitFiles :
          /\ editor = [open(bytes, FALSE) EXCEPT
                           !.undo_redo_stack = NewStack(MaxEdits)]
          /\ run = [phase |-> "m", n |-> 0, u |-> 0, r |-> 0,
                    base |-> bytes, final |-> bytes]
    /\ panicked = FALSE
    /\ edits = 0
    /\ StackIdle
    /\ OpIdle

HistorySpec == HistoryInit /\ [][Next]_vars

\* ------------------------------------------- the UndoRedoStack on its own

\* Capacity of the stack driven on its own, and the number of calls made:
\* enough to fill the stack past its capacity and empty it again.
StackCapacity == 2
MaxCalls == 2 * StackCapacity + 2

\* The operations pushed.
StackOps == {new_replace_byte(0, 1, 2), new_insert_byte(1, 3)}

EditorIdle ==
    /\ editor = open(<<>>, TRUE)
    /\ panicked = FALSE
    /\ edits = 0
    /\ run = NoRun

StackInit ==
    /\ stack = NewStack(StackCapacity)
    /\ calls = <<>>
    /\ EditorIdle
    /\ OpIdle

\* One call on the stack, logged with the Option it took or returned.
StackCall(name, op, after) ==
    /\ Len(calls) < MaxCalls
    /\ calls' = Append(calls, [call |-> name, op |-> op])
    /\ stack' = after
    /\ UNCHANGED <<editor, panicked, edits, run, t>>

SPush == \E op \in StackOps : StackCall("push", Some(op), StackPush(stack, op))
SUndo == StackCall("undo", StackUndo(stack).op, StackUndo(stack).stack)
SRedo == StackCall("redo", StackRedo(stack).op, StackRedo(stack).stack)
SClear == StackCall("clear", None, StackClear(stack))

StackNext == SPush \/ SUndo \/ SRedo \/ SClear

StackSpec == StackInit /\ [][StackNext]_vars

\* ------------------------------- one EditOperation applied forward and back

\* Largest buffer an operation is applied to, and the bytes it holds.
MaxBufLen == 2
TestBytes == {1, 2}

RECURSIVE SeqsUpTo(_, _)
SeqsUpTo(S, n) ==
    IF n = 0 THEN {<<>>}
    ELSE LET shorter == SeqsUpTo(S, n - 1)
         IN  shorter \cup {Append(q, x) : q \in {r \in shorter : Len(r) = n - 1}, x \in S}

Buffers == SeqsUpTo(TestBytes, MaxBufLen)
SeqsOfLen(n) == {q \in SeqsUpTo(TestBytes, n) : Len(q) = n}

\* The records valid on buffer d: the position lies in the buffer (or at its
\* end, for an insert), the old bytes are the bytes of d at the position, a
\* replacement keeps the length, and an insert records no old bytes.
InsertByteOps(d) ==
    {InsertByte(p, None, v) : p \in 0..Len(d), v \in TestBytes}
DeleteByteOps(d) ==
    {DeleteByte(p, d[p + 1]) : p \in 0..(Len(d) - 1)}
ReplaceByteOps(d) ==
    {new_replace_byte(p, d[p + 1], v) : p \in 0..(Len(d) - 1), v \in TestBytes}
InsertBytesOps(d) ==
    {InsertBytes(p, <<>>, q) : p \in 0..Len(d), q \in SeqsUpTo(TestBytes, 2) \ {<<>>}}
DeleteBytesOps(d) ==
    UNION {{DeleteBytes(p, SubSeq(d, p + 1, p + k)) : k \in 1..(Len(d) - p)} :
             p \in 0..(Len(d) - 1)}
ReplaceBytesOps(d) ==
    UNION {UNION {{ReplaceBytes(p, SubSeq(d, p + 1, p + k), q) : q \in SeqsOfLen(k)} :
                    k \in 1..(Len(d) - p)} :
             p \in 0..(Len(d) - 1)}
ValidOps(d) ==
    InsertByteOps(d) \cup DeleteByteOps(d) \cup ReplaceByteOps(d)
    \cup InsertBytesOps(d) \cup DeleteBytesOps(d) \cup ReplaceBytesOps(d)

OpInit ==
    /\ \E d \in Buffers : \E op \in ValidOps(d) :
          t = [pc |-> "start", op |-> op, before |-> d, data |-> d]
    /\ StackIdle
    /\ EditorIdle

\* EditOperation::redo on the buffer
ApplyRedo ==
    /\ t.pc = "start"
    /\ LET r == OpRedo(t.op, t.data)
       IN  t' = [t EXCEPT !.pc = IF r.ok THEN "redone" ELSE "abort", !.data = r.data]
    /\ UNCHANGED <<editor, panicked, edits, run, stack, calls>>

\* EditOperation::undo on the buffer redo left
ApplyUndo ==
    /\ t.pc = "redone"
    /\ LET r == OpUndo(t.op, t.data)
       IN  t' = [t EXCEPT !.pc = IF r.ok THEN "undone" ELSE "abort", !.data = r.data]
    /\ UNCHANGED <<editor, panicked, edits, run, stack, calls>>

\* find_pattern(pattern, start) on the buffer, as start_search calls it
FindPattern ==
    /\ t.pc = "start"
    /\ \E pattern \in SeqsUpTo(TestBytes, MaxBufLen), start \in 0..(MaxBufLen + 2) :
          t' = [pc |-> "searched", op |-> t.op, before |-> t.before,
                data |-> t.data, pattern |-> pattern, start |-> start,
                found |-> find_pattern(t.data, pattern, start)]
    /\ UNCHANGED <<editor, panicked, edits, run, stack, calls>>

OpNext == ApplyRedo \/ ApplyUndo \/ FindPattern

OpSpec == OpInit /\ [][OpNext]_vars

\* ------------------------------------------------------------------ claims

\* Arguments the claims are evaluated on in every reachable state.
\* Hex-digit characters with their digit values: '1', '9', 'a', 'F'.
HexKeyDigits == {<<49, 1>>, <<57, 9>>, <<97, 10>>, <<70, 15>>}
HexKeys == {kd[1] : kd \in HexKeyDigits}
\* Printable characters that are no hex digits: 'G', 'z'.
PlainKeys == {71, 122}
ByteLists == {<<1, 2>>, <<71>>}

top(q) == q[Len(q)]
undo_log(e) == e.undo_redo_stack.undo_stack
redo_log(e) == e.undo_redo_stack.redo_stack

\* What each mutating call returns on editor e.
MutationResults(e) ==
    {input_hex_char(e, c) : c \in HexKeys}
    \cup {input_ascii_char(e, c) : c \in PlainKeys}
    \cup {insert_byte(e, v) : v \in {0, 255}}
    \cup {insert_bytes(e, q) : q \in ByteLists}

\* The editor each cursor move leaves.
MoveResults(e) ==
    {move_cursor_up(e), move_cursor_down(e), move_cursor_left(e),
     move_cursor_right(e), page_up(e), page_down(e),
     move_to_line_start(e), move_to_line_end(e)}

\* The editor each navigation leaves: the moves, goto and search.
NavigationResults(e) ==
    MoveResults(e)
    \cup {goto_address(e, input).e : input \in GotoInputs}
    \cup {start_search(e, input).e : input \in SearchInputs}

\* The cursor is a valid offset: 0 <= cursor <= max(length - 1, 0).
CursorInBounds(e) == e.cursor_pos <= SatSub(Len(e.data), 1)

\* The cursor's row lies in the visible window.
CursorRowVisible(e) ==
    /\ e.view_offset \div BytesPerLine <= e.cursor_pos \div BytesPerLine
    /\ e.cursor_pos \div BytesPerLine < e.view_offset \div BytesPerLine + VisibleLines

\* C1: n recorded mutations (n within the history capacity), then n undo()
\* calls give back the buffer before the first mutation, and n redo() calls
\* after that give the buffer after the n-th mutation.
C1_UndoAllRedoAll ==
    (~panicked /\ run.n <= editor.undo_redo_stack.max_operations) =>
        /\ (run.phase = "u" /\ run.u = run.n) => editor.data = run.base
        /\ (run.phase = "r" /\ run.r = run.n) => editor.data = run.final

\* C2: for every operation record valid on a buffer, redo followed by undo
\* gives back the buffer, byte for byte.
C2_RoundTrip ==
    /\ t.pc # "abort"
    /\ t.pc = "undone" => t.data = t.before

\* C3: every mutation that records an operation leaves the redo log empty
\* (UndoRedoStack::push empties it), so that can_redo() is false and redo()
\* then changes neither the buffer nor the logs.
C3_MutationClearsRedo ==
    ~panicked =>
        /\ \A res \in MutationResults(editor) :
              res.rec = 1 =>
                  /\ redo_log(res.e) = <<>>
                  /\ ~can_redo(res.e)
                  /\ redo(res.e) = Ret(res.e, "ok", 0)
        /\ \A op \in StackOps :
              StackPush(editor.undo_redo_stack, op).redo_stack = <<>>

\* A mutation is recorded in a state reached by an undo (the redo log holds
\* a record), and empties the redo log.
C3_Witness ==
    /\ ~panicked
    /\ can_redo(editor)
    /\ insert_byte(editor, 255).rec = 1
    /\ ~can_redo(insert_byte(editor, 255).e)

\* C4: in every state reached by push, undo, redo and clear, the undo log
\* holds at most max_operations records.
C4_UndoLogBounded ==
    Len(stack.undo_stack) <= stack.max_operations

\* A redo() has just moved a record back and the undo log is full.
C4_Witness ==
    /\ calls # <<>>
    /\ top(calls).call = "redo"
    /\ top(calls).op # None
    /\ Len(stack.undo_stack) = StackCapacity

\* The calls are StackCapacity + 1 pushes on the new stack, then only undos.
OverflowThenUndos ==
    /\ Len(calls) >= StackCapacity + 1
    /\ \A i \in 1..Len(calls) :
          calls[i].call = IF i <= StackCapacity + 1 THEN "push" ELSE "undo"

\* The records kept after the overflow: the last StackCapacity pushed.
KeptAfterOverflow == [i \in 1..StackCapacity |-> calls[i + 1].op[1]]

\* C5: after C + 1 pushes on an empty stack the undo log holds exactly the
\* C most recently pushed records in push order; the undo() calls that
\* follow return those records, newest first, and then none: the record
\* pushed first is never returned.
C5_OldestEvicted ==
    OverflowThenUndos =>
        LET k == Len(calls) - (StackCapacity + 1)
        IN  /\ stack.undo_stack = SubSeq(KeptAfterOverflow, 1, SatSub(StackCapacity, k))
            /\ \A j \in 1..k :
                  calls[StackCapacity + 1 + j].op =
                      IF j <= StackCapacity
                      THEN Some(KeptAfterOverflow[StackCapacity - j + 1])
                      ELSE None

\* C + 1 pushes, the first of a record that is not pushed again, then
\* C + 1 undos: the last one found nothing to return.
C5_Witness ==
    /\ OverflowThenUndos
    /\ Len(calls) = 2 * StackCapacity + 2
    /\ \A i \in 2..(StackCapacity + 1) : calls[i].op # calls[1].op
    /\ top(calls).op = None
    /\ stack.undo_stack = <<>>

\* C6: after every operation the cursor is a valid offset,
\* 0 <= cursor <= max(length - 1, 0).
C6_CursorValid ==
    ~panicked => CursorInBounds(editor)

\* C7: from a cursor within bounds every move leaves the cursor within
\* bounds (below the length on a buffer that holds bytes), and on an empty
\* buffer leaves it unchanged at 0.
C7_MovesStayInBounds ==
    (~panicked /\ CursorInBounds(editor)) =>
        \A e \in MoveResults(editor) :
            /\ CursorInBounds(e)
            /\ Len(editor.data) > 0 => e.cursor_pos < Len(editor.data)
            /\ Len(editor.data) = 0 => e.cursor_pos = 0 /\ e.cursor_pos = editor.cursor_pos
            /\ e.data = editor.data

\* The cursor is on the last byte of a buffer of two rows or more, where
\* moving right and moving down leave it.
C7_Witness ==
    /\ ~panicked
    /\ Len(editor.data) > BytesPerLine
    /\ editor.cursor_pos = Len(editor.data) - 1
    /\ move_cursor_right(editor).cursor_pos = Len(editor.data) - 1
    /\ move_cursor_down(editor).cursor_pos = Len(editor.data) - 1

\* The editor each cursor-changing call leaves (those that do not abort).
CursorChangeResults(e) ==
    NavigationResults(e)
    \cup {res.e : res \in {r \in MutationResults(e) : r.ret = "ok"}}

\* C8: after every operation that changes the cursor, the cursor's row lies
\* in the visible window. Stated as the step of the invariant: called with
\* a valid cursor whose row is visible, the operation leaves the row of the
\* cursor visible.
C8_CursorRowVisible ==
    (~panicked /\ CursorInBounds(editor) /\ CursorRowVisible(editor)) =>
        \A e \in CursorChangeResults(editor) :
            e.cursor_pos # editor.cursor_pos => CursorRowVisible(e)

\* C9: toggling the mode, and every navigation that moves the cursor, clears
\* the pending nibble, so that the hex digit typed next changes no byte.
C9_PendingNibbleCleared ==
    ~panicked =>
        /\ toggle_mode(editor).half_byte = None
        /\ \A e \in NavigationResults(editor) :
              e.cursor_pos # editor.cursor_pos =>
                  /\ e.half_byte = None
                  /\ \A c \in HexKeys : input_hex_char(e, c).e.data = e.data

\* C10: on a writable buffer in Hex mode, a hex digit typed with no pending
\* nibble is only stored as the pending nibble; typed with pending nibble h
\* and the cursor inside the buffer, it sets the byte at the cursor to
\* 16 * h + digit and nothing else in the buffer, records one
\* ReplaceByte(position, old, new), sets modified, clears the pending nibble
\* and advances the cursor by one unless it is on the last byte.
C10_HexEntry ==
    (~panicked /\ ~editor.readonly /\ editor.mode = "Hex") =>
        \A kd \in HexKeyDigits :
            LET res == input_hex_char(editor, kd[1])
                digit == kd[2]
                p == editor.cursor_pos
            IN  /\ editor.half_byte = None =>
                      /\ res.e = [editor EXCEPT !.half_byte = Some(digit)]
                      /\ res.rec = 0
                /\ (editor.half_byte # None /\ p < Len(editor.data)) =>
                      LET new == 16 * editor.half_byte[1] + digit
                          old == editor.data[p + 1]
                      IN  /\ res.e.data = [editor.data EXCEPT ![p + 1] = new]
                          /\ res.rec = 1
                          /\ top(undo_log(res.e)) = ReplaceByte(p, old, new)
                          /\ Len(undo_log(res.e)) =
                                 Min(Len(undo_log(editor)) + 1, MaxOperations)
                          /\ res.e.modified
                          /\ res.e.half_byte = None
                          /\ res.e.cursor_pos =
                                 IF p = Len(editor.data) - 1 THEN p ELSE p + 1

\* A byte was completed from two typed digits of '1' before the last byte:
\* the record is on the undo log, the byte is 0x11, the cursor moved on.
C10_Witness ==
    /\ ~panicked
    /\ editor.mode = "Hex"
    /\ editor.half_byte = None
    /\ undo_log(editor) # <<>>
    /\ top(undo_log(editor)).kind = "ReplaceByte"
    /\ top(undo_log(editor)).new_value = 17
    /\ top(undo_log(editor)).position + 1 = editor.cursor_pos
    /\ editor.cursor_pos < Len(editor.data)
    /\ editor.data[editor.cursor_pos] = 17

\* Printable characters typed: '1', 'a', 'F' (hex digits) and 'G', 'z'.
PrintableKeys == {49, 97, 70} \cup PlainKeys

\* C11: in Ascii mode on a writable buffer with the cursor on a byte, every
\* printable key handled by handle_input, hex digits included, replaces the
\* byte at the cursor with the character's code, records one ReplaceByte,
\* sets modified and advances the cursor by one unless it is on the last
\* byte.
C11_AsciiEntry ==
    (~panicked /\ ~editor.readonly /\ editor.mode = "Ascii"
              /\ editor.cursor_pos < Len(editor.data)) =>
        \A c \in PrintableKeys :
            LET res == handle_input_char(editor, c).res
                p == editor.cursor_pos
            IN  /\ res.ret = "ok"
                /\ res.e.data = [editor.data EXCEPT ![p + 1] = c]
                /\ res.rec = 1
                /\ top(undo_log(res.e)) = ReplaceByte(p, editor.data[p + 1], c)
                /\ res.e.modified
                /\ res.e.cursor_pos = IF p = Len(editor.data) - 1 THEN p ELSE p + 1

\* The inserting calls on editor e, each with the bytes it inserts.
Inserts(e) ==
    {[res |-> insert_byte(e, v), bytes |-> <<v>>] : v \in {0, 255}}
    \cup {[res |-> insert_bytes(e, q), bytes |-> q] : q \in ByteLists}

\* C12: insert_byte and insert_bytes on a writable buffer with cursor p put
\* the bytes at offset p in order, shift the bytes formerly at p.. to the
\* right unaltered, grow the length by the number of bytes inserted, set
\* modified, record one operation and leave the cursor at p + (number of
\* bytes inserted).
C12_InsertAtCursor ==
    (~panicked /\ ~editor.readonly) =>
        \A ins \in Inserts(editor) :
            LET p == editor.cursor_pos
                k == Len(ins.bytes)
                d == editor.data
            IN  /\ ins.res.ret = "ok"
                /\ ins.res.e.data =
                       SubSeq(d, 1, p) \o ins.bytes \o SubSeq(d, p + 1, Len(d))
                /\ Len(ins.res.e.data) = Len(d) + k
                /\ ins.res.e.modified
                /\ ins.res.rec = 1
                /\ undo_log(ins.res.e) # <<>>
                /\ ins.res.e.cursor_pos = p + k

\* C13: insert_bytes of k bytes at cursor p followed by undo() gives back
\* the buffer before the insert, the bytes after the inserted span
\* included, and the cursor p.
C13_UndoRangeInsert ==
    (~panicked /\ ~editor.readonly) =>
        \A q \in ByteLists :
            LET ins == insert_bytes(editor, q)
                und == undo(ins.e)
            IN  ins.ret = "ok" =>
                    /\ und.ret = "ok"
                    /\ und.e.data = editor.data
                    /\ und.e.cursor_pos = editor.cursor_pos

\* What each mutating call, undo and redo included, returns on editor e.
MutatingCalls(e) ==
    MutationResults(e)
    \cup {insert_from_hex_input(e, q) : q \in HexInputs \cup {<<>>}}
    \cup {insert_from_ascii_input(e, q) : q \in AsciiInputs}
    \cup {insert_from_hex_string(e, q) : q \in HexInputs}
    \cup {insert_from_ascii_string(e, q) : q \in AsciiInputs}
    \cup {undo(e), redo(e)}

\* C14: on a read-only buffer every mutating call leaves the data, the
\* cursor, the modified flag, the pending nibble and both logs unchanged,
\* and insert_byte and insert_bytes return an error; in every state of a
\* read-only session the data are the bytes loaded at open and modified is
\* false.
C14_ReadOnlyUnchanged ==
    (~panicked /\ editor.readonly) =>
        /\ \A res \in MutatingCalls(editor) :
              /\ res.e = editor
              /\ res.rec = 0
              /\ res.ret \in {"ok", "err"}
        /\ \A v \in {0, 255} : insert_byte(editor, v).ret = "err"
        /\ \A q \in ByteLists : insert_bytes(editor, q).ret = "err"
        /\ editor.data = editor.original_data
        /\ editor.data \in InitFiles
        /\ ~editor.modified
        /\ undo_log(editor) = <<>> /\ redo_log(editor) = <<>>

\* A read-only session on a file that holds bytes, where the cursor was
\* moved and the mode toggled: the inserts are refused.
C14_Witness ==
    /\ ~panicked
    /\ editor.readonly
    /\ editor.mode = "Ascii"
    /\ editor.cursor_pos > 0
    /\ insert_byte(editor, 255) = Ret(editor, "err", 0)
    /\ input_ascii_char(editor, 71) = Ret(editor, "ok", 0)

\* C15: save() on a writable, modified buffer whose write succeeds leaves
\* the data and the cursor unchanged, sets modified to false and empties
\* both logs: right after it can_undo() and can_redo() are false and undo()
\* and redo() change nothing.
C15_SaveClearsHistory ==
    (~panicked /\ ~editor.readonly /\ editor.modified) =>
        LET res == save(editor, "ok")
        IN  /\ res.ret = "ok"
            /\ res.io = "written"
            /\ res.e.data = editor.data
            /\ res.e.cursor_pos = editor.cursor_pos
            /\ ~res.e.modified
            /\ undo_log(res.e) = <<>> /\ redo_log(res.e) = <<>>
            /\ ~can_undo(res.e) /\ ~can_redo(res.e)
            /\ undo(res.e) = Ret(res.e, "ok", 0)
            /\ redo(res.e) = Ret(res.e, "ok", 0)

\* An edited buffer has been saved: it is unmodified, differs from every
\* file the session can have opened, and nothing can be undone or redone.
C15_Witness ==
    /\ ~panicked
    /\ ~editor.readonly
    /\ ~editor.modified
    /\ editor.data \notin InitFiles
    /\ editor.original_data = editor.data
    /\ ~can_undo(editor) /\ ~can_redo(editor)

\* C16: save() on an unmodified read-only buffer returns success, writes
\* nothing and changes no state; on a modified read-only buffer it returns
\* an error and leaves the buffer modified.
C16_ReadOnlySave ==
    (~panicked /\ editor.readonly) =>
        \A storage \in {"ok", "fail"} :
            LET res == save(editor, storage)
            IN  /\ ~editor.modified =>
                      /\ res.ret = "ok"
                      /\ res.io = "none"
                      /\ res.e = editor
                /\ editor.modified =>
                      /\ res.ret = "err"
                      /\ res.e.modified

\* C17: when the open or the write of save() fails, save() returns an error
\* and the data, the cursor, the modified flag (still true) and both logs
\* are as before the call: undo is still available and a later save() can
\* succeed.
C17_FailedSaveKeepsState ==
    (~panicked /\ ~editor.readonly /\ editor.modified) =>
        LET res == save(editor, "fail")
        IN  /\ res.ret = "err"
            /\ res.io = "failed"
            /\ res.e = editor
            /\ res.e.modified
            /\ can_undo(res.e) = can_undo(editor)
            /\ undo(res.e) = undo(editor)
            /\ save(res.e, "ok").ret = "ok"
            /\ ~save(res.e, "ok").e.modified

\* A modified buffer with a record to undo, on which a save fails.
C17_Witness ==
    /\ ~panicked
    /\ ~editor.readonly
    /\ editor.modified
    /\ can_undo(editor)
    /\ save(editor, "fail").ret = "err"
    /\ can_undo(save(editor, "fail").e)

\* C18 as stated: undo() with an empty undo log, and redo() with an empty
\* redo log, return success and leave the data, the cursor, the modified
\* flag and both logs unchanged.
C18_EmptyLogNoOp ==
    ~panicked =>
        /\ undo_log(editor) = <<>> => undo(editor) = Ret(editor, "ok", 0)
        /\ redo_log(editor) = <<>> => redo(editor) = Ret(editor, "ok", 0)

\* C18 amended: on a writable buffer, undo() with an empty undo log, and
\* redo() with an empty redo log, return success and leave the whole editor
\* unchanged; on a read-only buffer they return the read-only error and
\* leave the editor unchanged.
C18_EmptyLogNoOpWritable ==
    ~panicked =>
        /\ undo_log(editor) = <<>> =>
              undo(editor) = Ret(editor, IF editor.readonly THEN "err" ELSE "ok", 0)
        /\ redo_log(editor) = <<>> =>
              redo(editor) = Ret(editor, IF editor.readonly THEN "err" ELSE "ok", 0)

\* A writable, modified buffer after its only record was undone: the undo
\* log is empty, the redo log is not, and one more undo() changes nothing.
C18_Witness ==
    /\ ~panicked
    /\ ~editor.readonly
    /\ editor.modified
    /\ undo_log(editor) = <<>>
    /\ redo_log(editor) # <<>>
    /\ undo(editor) = Ret(editor, "ok", 0)

\* What each byte replacement returns on editor e.
ReplaceResults(e) ==
    {input_hex_char(e, c) : c \in HexKeys}
    \cup {input_ascii_char(e, c) : c \in PlainKeys}

\* C19: on an unmodified buffer, one replacement followed by undo() gives
\* the original bytes with modified = false, and a redo() after that gives
\* the replaced bytes with modified = true.
C19_UndoRestoresModified ==
    (~panicked /\ ~editor.readonly /\ ~editor.modified) =>
        \A res \in ReplaceResults(editor) :
            res.rec = 1 =>
                LET und == undo(res.e)
                    red == redo(und.e)
                IN  /\ und.ret = "ok"
                    /\ und.e.data = editor.data
                    /\ ~und.e.modified
                    /\ red.ret = "ok"
                    /\ red.e.data = res.e.data
                    /\ red.e.modified

\* C20: UndoRedoStack::undo on a non-empty undo log removes its last record,
\* appends that record to the redo log and returns it, all other records of
\* both logs staying in place; UndoRedoStack::redo does the same from the
\* redo log to the undo log; each returns none and changes nothing when its
\* source log is empty.
C20_StackUndoRedo ==
    LET u == stack.undo_stack
        r == stack.redo_stack
        und == StackUndo(stack)
        red == StackRedo(stack)
    IN  /\ u # <<>> =>
              /\ und.op = Some(u[Len(u)])
              /\ und.stack.undo_stack = SubSeq(u, 1, Len(u) - 1)
              /\ und.stack.redo_stack = r \o <<u[Len(u)]>>
              /\ und.stack.max_operations = stack.max_operations
        /\ u = <<>> => und = [stack |-> stack, op |-> None]
        /\ r # <<>> =>
              /\ red.op = Some(r[Len(r)])
              /\ red.stack.redo_stack = SubSeq(r, 1, Len(r) - 1)
              /\ red.stack.undo_stack = u \o <<r[Len(r)]>>
              /\ red.stack.max_operations = stack.max_operations
        /\ r = <<>> => red = [stack |-> stack, op |-> None]

\* Two different records were pushed and one undone: each log holds one
\* record, the newer one on the redo log, as the undo() returned it.
C20_Witness ==
    /\ calls # <<>>
    /\ top(calls).call = "undo"
    /\ top(calls).op # None
    /\ Len(stack.undo_stack) = 1
    /\ Len(stack.redo_stack) = 1
    /\ top(calls).op = Some(stack.redo_stack[1])
    /\ stack.undo_stack[1] # stack.redo_stack[1]

\* The offsets at or after start where pattern lies wholly inside d.
Occurrences(d, pattern, start) ==
    {i \in 0..Len(d) :
        /\ i >= start
        /\ i + Len(pattern) <= Len(d)
        /\ \A k \in 1..Len(pattern) : d[i + k] = pattern[k]}

\* What find_pattern is to return.
FirstOccurrence(d, pattern, start) ==
    IF pattern = <<>> \/ Occurrences(d, pattern, start) = {}
    THEN None
    ELSE Some(CHOOSE i \in Occurrences(d, pattern, start) :
                  \A j \in Occurrences(d, pattern, start) : i <= j)

\* C21: find_pattern(pattern, start) returns the least index i >= start at
\* which the buffer holds the pattern, and none when there is no such index,
\* when the pattern is empty or when it is longer than what remains from
\* start (start beyond the end included); the index returned keeps the
\* whole pattern inside the buffer, and the buffer is not changed.
C21_FindPattern ==
    /\ t.pc = "searched" =>
          /\ t.found = FirstOccurrence(t.data, t.pattern, t.start)
          /\ t.found # None => t.found[1] + Len(t.pattern) <= Len(t.data)
          /\ t.start + Len(t.pattern) > Len(t.data) => t.found = None
          /\ t.pattern = <<>> => t.found = None
          /\ t.data = t.before
    /\ find_pattern(<<0, 16, 32, 48>>, <<16, 32>>, 0) = Some(1)
    /\ find_pattern(<<0, 0>>, <<16, 32>>, 0) = None

\* A search for the byte 2 from offset 1 in a buffer that begins and ends
\* with 2 has returned the offset of the last byte.
C21_Witness ==
    /\ t.pc = "searched"
    /\ Len(t.data) >= 2
    /\ t.data[1] = 2
    /\ t.pattern = <<2>>
    /\ t.start = 1
    /\ t.found = Some(Len(t.data) - 1)

\* Address texts with the address each stands for: "0", "1", "2", "3",
\* "01", "+1", "a", "FF".
GotoAddresses ==
    {<<<<48>>, 0>>, <<<<49>>, 1>>, <<<<50>>, 2>>, <<<<51>>, 3>>,
     <<<<48, 49>>, 1>>, <<<<43, 49>>, 1>>, <<<<97>>, 10>>, <<<<70, 70>>, 255>>}

\* Texts that are empty or no address: "", " ", "g", "1 ", "-1", "0x1", "+".
GotoMalformed ==
    {<<>>, <<32>>, <<103>>, <<49, 32>>, <<45, 49>>, <<48, 120, 49>>, <<43>>}

\* C22: goto_address with a text that parses to the address a sets the
\* cursor to a when a < length and otherwise to the last byte (length - 1,
\* or 0 on an empty buffer), and changes nothing but the cursor and the view
\* offset; with an empty or malformed text it changes nothing at all.
C22_GotoAddress ==
    ~panicked =>
        /\ \A g \in GotoAddresses :
              LET res == goto_address(editor, g[1])
              IN  /\ res.ret = "ok"
                  /\ res.rec = 0
                  /\ res.e.cursor_pos =
                         IF g[2] < Len(editor.data) THEN g[2]
                         ELSE SatSub(Len(editor.data), 1)
                  /\ [res.e EXCEPT !.cursor_pos = editor.cursor_pos,
                                   !.view_offset = editor.view_offset] = editor
        /\ \A input \in GotoMalformed :
              goto_address(editor, input) = Ret(editor, "ok", 0)

\* A buffer of two bytes or more with the cursor on its first byte: "1"
\* moves the cursor to 1, "FF" to the last byte, "g" nowhere.
C22_Witness ==
    /\ ~panicked
    /\ Len(editor.data) >= 2
    /\ editor.cursor_pos = 0
    /\ goto_address(editor, <<49>>).e.cursor_pos = 1
    /\ goto_address(editor, <<70, 70>>).e.cursor_pos = Len(editor.data) - 1
    /\ goto_address(editor, <<103>>).e.cursor_pos = 0

\* C23: in every reachable state the view offset is a multiple of
\* bytes_per_line: 0 at construction, a row start after every operation
\* that changes it.
C23_ViewOffsetRowStart ==
    /\ editor.view_offset % BytesPerLine = 0
    /\ \A e0 \in Constructed : e0.view_offset = 0

\* The view has scrolled down to the row of the cursor.
C23_Witness ==
    /\ ~panicked
    /\ editor.view_offset >= BytesPerLine
    /\ Row(editor.cursor_pos) = Row(editor.view_offset)
    /\ editor.cursor_pos > editor.view_offset

\* C24 (the files opened include one holding what the editor holds now, the
\* sizes of new files the length of that): a buffer opened from a file holds
\* the bytes of the file, with
\* cursor 0, view offset 0, modified false, no pending nibble and empty
\* logs; a buffer made by new_with_size(fill, size) holds size bytes, each
\* the fill byte, with cursor 0, view offset 0, empty logs and
\* modified = (size > 0).
C24_InitialState ==
    /\ \A bytes \in InitFiles \cup {editor.data}, readonly \in BOOLEAN :
          LET e == open(bytes, readonly)
          IN  /\ e.data = bytes
              /\ e.cursor_pos = 0 /\ e.view_offset = 0
              /\ ~e.modified
              /\ e.half_byte = None
              /\ undo_log(e) = <<>> /\ redo_log(e) = <<>>
              /\ e.readonly = readonly
    /\ \A fill \in {0, 255}, size \in 0..(MaxNewSize + 1) \cup {Len(editor.data)} :
          LET e == new_with_size(fill, size)
          IN  /\ Len(e.data) = size
              /\ \A i \in 1..size : e.data[i] = fill
              /\ e.cursor_pos = 0 /\ e.view_offset = 0
              /\ undo_log(e) = <<>> /\ redo_log(e) = <<>>
              /\ e.modified = (size > 0)

\* A new file of the largest size, right after construction: it holds fill
\* bytes only, is reported modified and has nothing to undo.
C24_Witness ==
    /\ editor \in Constructed
    /\ editor.is_new_file
    /\ Len(editor.data) = MaxNewSize
    /\ editor.modified
    /\ edits = 0
    /\ ~can_undo(editor) /\ ~can_redo(editor)

\* Hex texts with the bytes each stands for ("0102", "01 02", "ff"), and hex
\* texts that do not parse ("01GG", "zz").
HexTexts == {<<<<48, 49, 48, 50>>, <<1, 2>>>>,
             <<<<48, 49, 32, 48, 50>>, <<1, 2>>>>,
             <<<<102, 102>>, <<255>>>>}
HexMalformed == {<<48, 49, 71, 71>>, <<122, 122>>}

\* The multi-byte inserts on editor e, each with the bytes it is to insert
\* (none for a text that does not parse).
RangeInserts(e) ==
    {[res |-> insert_bytes(e, q), bytes |-> q] : q \in ByteLists \cup {<<>>}}
    \cup {[res |-> insert_from_hex_string(e, h[1]), bytes |-> h[2]] : h \in HexTexts}
    \cup {[res |-> insert_from_hex_string(e, h), bytes |-> <<>>] : h \in HexMalformed}

\* C25: insert_bytes and insert_from_hex_string either insert every byte and
\* record one operation that one undo() reverts entirely, or (a text that
\* does not parse, no bytes, a read-only buffer) leave the data, the cursor,
\* the modified flag and the logs unchanged; never are only some of the
\* bytes inserted.
C25_RangeInsertAtomic ==
    ~panicked =>
        \A ins \in RangeInserts(editor) :
            LET p == editor.cursor_pos
                d == editor.data
            IN  IF editor.readonly \/ ins.bytes = <<>>
                THEN /\ ins.res.e = editor
                     /\ ins.res.rec = 0
                ELSE /\ ins.res.ret = "ok"
                     /\ ins.res.rec = 1
                     /\ ins.res.e.data =
                            SubSeq(d, 1, p) \o ins.bytes \o SubSeq(d, p + 1, Len(d))
                     /\ undo(ins.res.e).ret = "ok"
                     /\ undo(ins.res.e).e.data = d
                     /\ ~can_undo(undo(ins.res.e).e) \/ undo_log(undo(ins.res.e).e) = undo_log(editor)

\* C26: in every state a session on a writable buffer reaches, undo() and
\* redo() index, remove and splice inside the current buffer only: neither
\* aborts the program.
C26_UndoRedoInBounds ==
    (~panicked /\ ~editor.readonly) =>
        /\ undo(editor).ret # "panic"
        /\ redo(editor).ret # "panic"

\* C27: in every state that push, undo, redo and clear reach on a stack of
\* capacity C the two logs hold at most C records together, and
\* UndoRedoStack::undo followed at once by UndoRedoStack::redo, or redo
\* followed at once by undo, leaves both logs with their previous contents in
\* their previous order.
C27_TotalBoundRoundTrip ==
    /\ Len(stack.undo_stack) + Len(stack.redo_stack) <= stack.max_operations
    /\ StackRedo(StackUndo(stack).stack).stack = stack
    /\ StackUndo(StackRedo(stack).stack).stack = stack

\* C27, amended: the two logs hold at most C records together, and a pair
\* undo, redo (or redo, undo) restores both logs when its first call finds a
\* record to move.
C27_TotalBoundRoundTripMoved ==
    /\ Len(stack.undo_stack) + Len(stack.redo_stack) <= stack.max_operations
    /\ stack.undo_stack # <<>> =>
          /\ StackUndo(stack).op # None
          /\ StackRedo(StackUndo(stack).stack).stack = stack
    /\ stack.redo_stack # <<>> =>
          /\ StackRedo(stack).op # None
          /\ StackUndo(StackRedo(stack).stack).stack = stack

\* A full undo log of two different records, just restored by an undo and the
\* redo that followed it, both of which moved a record.
C27_Witness ==
    /\ Len(calls) >= 2
    /\ calls[Len(calls) - 1].call = "undo"
    /\ calls[Len(calls) - 1].op # None
    /\ top(calls).call = "redo"
    /\ top(calls).op = calls[Len(calls) - 1].op
    /\ Len(stack.undo_stack) = stack.max_operations
    /\ stack.redo_stack = <<>>
    /\ stack.undo_stack[1] # stack.undo_stack[2]

\* C28: in every state the editor reaches, an unmodified buffer holds exactly
\* the persisted baseline and has both logs empty; so whenever can_undo() or
\* can_redo() is true, modified is true.
C28_UnmodifiedIsBaseline ==
    ~panicked =>
        /\ ~editor.modified =>
              /\ editor.data = editor.original_data
              /\ undo_log(editor) = <<>>
              /\ redo_log(editor) = <<>>
        /\ (can_undo(editor) \/ can_redo(editor)) => editor.modified

\* A buffer saved after MaxEdits recorded edits: it is unmodified, its
\* baseline is neither a file that was opened nor the fill it was created
\* with, and the logs the edits filled are empty.
C28_Witness ==
    /\ ~panicked
    /\ ~editor.modified
    /\ edits = MaxEdits
    /\ editor.original_data \notin InitFiles
    /\ Len(editor.original_data) > MaxNewSize
    /\ editor.data = editor.original_data
    /\ ~can_undo(editor) /\ ~can_redo(editor)

\* The editor with its cursor and view offset set to those of `from`.
WithCursorOf(e, from) ==
    [e EXCEPT !.cursor_pos = from.cursor_pos, !.view_offset = from.view_offset]

\* e differs from the current editor in its cursor and view offset at most:
\* the data and its length, the modified flag, the mode and both logs are
\* those of the current editor, and so is every other field.
OnlyCursorMoved(e) ==
    /\ e.data = editor.data
    /\ Len(e.data) = Len(editor.data)
    /\ e.modified = editor.modified
    /\ e.mode = editor.mode
    /\ undo_log(e) = undo_log(editor)
    /\ redo_log(e) = redo_log(editor)
    /\ WithCursorOf(e, editor) = editor

\* The search text finds nothing from the cursor of e, or does not parse.
SearchMisses(e, input) ==
    LET parsed == hex_string_to_bytes(input)
    IN  parsed.ok => find_pattern(e.data, parsed.bytes, e.cursor_pos + 1) = None

\* C29: the cursor moves, the paging, the line moves, goto_address and
\* start_search change nothing but the cursor and the view offset: the data
\* and its length, the modified flag, the edit mode and both logs are as
\* before; a search that finds nothing leaves the cursor and the view offset
\* as they were too.
C29_NavigationFrame ==
    ~panicked =>
        /\ OnlyCursorMoved(move_cursor_up(editor))
        /\ OnlyCursorMoved(move_cursor_down(editor))
        /\ OnlyCursorMoved(move_cursor_left(editor))
        /\ OnlyCursorMoved(move_cursor_right(editor))
        /\ OnlyCursorMoved(page_up(editor))
        /\ OnlyCursorMoved(page_down(editor))
        /\ OnlyCursorMoved(move_to_line_start(editor))
        /\ OnlyCursorMoved(move_to_line_end(editor))
        /\ \A input \in GotoInputs :
              LET res == goto_address(editor, input)
              IN  res.ret # "panic" /\ OnlyCursorMoved(res.e)
        /\ \A input \in SearchInputs :
              LET res == start_search(editor, input)
              IN  /\ res.ret # "panic"
                  /\ OnlyCursorMoved(res.e)
                  /\ SearchMisses(editor, input) => res.e = editor

\* A modified buffer in ASCII mode with a record on its undo log, from which a
\* cursor move, a page move, an address jump and a search for "BB" each move
\* the cursor, and a search for "GG" finds nothing.
C29_Witness ==
    /\ ~panicked
    /\ editor.modified
    /\ editor.mode = "Ascii"
    /\ can_undo(editor)
    /\ move_cursor_right(editor).cursor_pos # editor.cursor_pos
    /\ page_down(editor).cursor_pos # editor.cursor_pos
    /\ goto_address(editor, <<49>>).e.cursor_pos # editor.cursor_pos
    /\ start_search(editor, <<66, 66>>).e.cursor_pos # editor.cursor_pos
    /\ SearchMisses(editor, <<71, 71>>)

====
